---- MODULE Spec2Model ----
(***************************************************************************)
(* Walleye pollock egg model (src/IBM/ACTEA_walleye_pollock.py): the       *)
(* per-particle state of LarvalFish and the operations update_fish_eggs,   *)
(* update_egg_density, update_terminal_velocity and update, driven by the  *)
(* set-up of src/IBM/ACTEA_run_drift_eggs.py.                              *)
(*                                                                         *)
(* Number representation (TLC has 32-bit integers only):                   *)
(*   stage_fraction   in units of 1e-9            (One = 1.0)              *)
(*   age              in units of 1/86400 day     (the seconds stepped)    *)
(*   time_step        in seconds                                           *)
(*   temperature      in whole degrees C, salinity in whole PSU            *)
(*   density, rho_w   in units of 2^-13 g/kg, the spacing of np.float32    *)
(*                    in [1024, 2048): what the float32 array of           *)
(*                    elements.density can hold                            *)
(*   table densities  in units of 1e-6 g/kg (the literals * 1000.)         *)
(*   diameter         in units of 1e-4 m                                   *)
(*   velocities       rationals [n, d] in units of 1/16384000 m/s;         *)
(*                    [n |-> 0, d |-> 0] is NaN                            *)
(***************************************************************************)
EXTENDS Integers, Sequences, FiniteSets, TLC

\* ------------------------------------------------------------------ bounds
\* Number of particles of the ensemble.
NumParticles == 2
\* Number of operation calls of one run (o.run(duration=...) / time_step).
MaxSteps == 3
\* Number of calls of the timestep scenario (13 are needed to hatch from 0.9).
ScenarioSteps == 15

Particles == 1..NumParticles

\* ------------------------------------------------------- program constants
\* stage_fraction 1.0 in units of 1e-9 (the hatching threshold, line 295).
One == 1000000000
\* 0.0506982 and 0.0149187 in units of 1e-7 per day (line 282).
RateIntercept == 506982
RateSlope == 149187
\* 60 * 60 * 24 (lines 285-287).
SecondsPerDay == 86400
\* Defaults of LarvalFishElement (lines 33-77): diameter 0.0014 m, density
\* 1024 g/kg (also the site's density of setup_eggs), stage_fraction /
\* age / hatched 0.
DefaultDiameter == 14
DefaultDensity == 8388608

VARIABLES
    phase,                      \* "setup" | "running" | "failed"
    constant_egg_density,       \* self.constant_egg_density
    dark_or_light_egg_density,  \* self.dark_or_light_egg_density
    port_townsend_eggs,         \* self.port_townsend_eggs
    time_step,                  \* self.time_step, seconds
    expected_steps,             \* length of the run, in operation calls
    steps_calculation,          \* operation calls made so far
    elements,                   \* self.elements: one function per property
    environment                 \* self.environment: the ambient samples

vars == <<phase, constant_egg_density, dark_or_light_egg_density,
          port_townsend_eggs, time_step, expected_steps, steps_calculation,
          elements, environment>>

\* ----------------------------------------------------------------- helpers
Abs(x) == IF x < 0 THEN -x ELSE x

Sgn(x) == IF x > 0 THEN 1 ELSE IF x < 0 THEN -1 ELSE 0

\* np.where(cond)[0]: the indices at which cond holds, ascending.
RECURSIVE np_where(_, _)
np_where(cond, n) ==
    IF n = 0 THEN <<>>
    ELSE IF cond[n] THEN Append(np_where(cond, n - 1), n)
         ELSE np_where(cond, n - 1)

Range(s) == {s[i] : i \in 1..Len(s)}

\* ------------------------------------------------- 4.1 stage progression
\* The regression without its intercept, and with the slope subtracted.
amb_duration_no_intercept(T) == RateSlope * T

amb_duration_minus(T) == RateIntercept - RateSlope * T

\* amb_duration = 0.0506982 + 0.0149187 * sea_water_temperature, 1e-7/day.

amb_duration(T) == RateIntercept + RateSlope * T

\* days_in_timestep * amb_duration in units of 1e-9:
\*   (time_step / 86400) * (amb_duration * 1e-7) * 1e9
\*     = time_step * amb_duration / 864 = (time_step / 144) * (amb_duration / 6)
\* exact for the time steps (multiples of 3600 s) and temperatures (even
\* degrees) of the model, for which both divisions leave no remainder.
amb_fraction(T, dt) == (dt \div (SecondsPerDay \div 600)) * (amb_duration(T) \div 6)

\* hatched[eggs[hatching]] = 1 without the eggs[] indirection.
hatch_indices_unmapped(eggs, hatching) == Range(hatching)

\* eggs[hatching]: the particle indices of the positions `hatching` of eggs.
hatch_indices(eggs, hatching) == {eggs[hatching[k]] : k \in 1..Len(hatching)}

\* update_fish_eggs with the flag array rebuilt from the particles hatching
\* in this call instead of set at their indices.
update_fish_eggs_rebuilt(E, T, dt) ==
    LET eggs == np_where([p \in Particles |-> E.hatched[p] = 0], NumParticles)
    IN  IF Len(eggs) = 0 THEN E
        ELSE
          LET stage == [p \in Particles |->
                          IF p \in Range(eggs)
                          THEN E.stage_fraction[p] + amb_fraction(T[p], dt)
                          ELSE E.stage_fraction[p]]
              age == [p \in Particles |->
                          IF p \in Range(eggs) THEN E.age[p] + dt ELSE E.age[p]]
              hatching == np_where([k \in 1..Len(eggs) |-> stage[eggs[k]] >= One],
                                   Len(eggs))
              hatched == IF Len(hatching) > 0
                         THEN [p \in Particles |->
                                 IF p \in hatch_indices(eggs, hatching)
                                 THEN 1 ELSE 0]
                         ELSE E.hatched
          IN  [E EXCEPT !.stage_fraction = stage, !.age = age, !.hatched = hatched]

\* update_fish_eggs, lines 263-301, on elements E with temperatures T and
\* time step dt: the elements afterwards.
update_fish_eggs(E, T, dt) ==
    LET eggs == np_where([p \in Particles |-> E.hatched[p] = 0], NumParticles)
    IN  IF Len(eggs) = 0 THEN E
        ELSE
          LET stage == [p \in Particles |->
                          IF p \in Range(eggs)
                          THEN E.stage_fraction[p] + amb_fraction(T[p], dt)
                          ELSE E.stage_fraction[p]]
              age == [p \in Particles |->
                          IF p \in Range(eggs) THEN E.age[p] + dt ELSE E.age[p]]
              \* positions within eggs, as np.where over stage_fraction[eggs]
              hatching == np_where([k \in 1..Len(eggs) |-> stage[eggs[k]] >= One],
                                   Len(eggs))
              hatched == IF Len(hatching) > 0
                         THEN [p \in Particles |->
                                 IF p \in hatch_indices(eggs, hatching)
                                 THEN 1 ELSE E.hatched[p]]
                         ELSE E.hatched
          IN  [E EXCEPT !.stage_fraction = stage, !.age = age, !.hatched = hatched]

\* ---------------------------------------------------- 4.2 density lookup
\* The four tables of lines 223-247 after "* 1000.", in units of 1e-6 g/kg.
egg_density_pt_dark ==
    <<1024446663, 1024665364, 1024937853, 1024842570, 1024994585, 1024975082,
      1024875345, 1024765756, 1024764591, 1024751739, 1024760701, 1024879361,
      1025103333, 1025475083, 1026092269, 1026719133>>

egg_density_pt_light ==
    <<1024413091, 1024645180, 1024770682, 1025047026, 1024993654, 1025047998,
      1024956875, 1024893251, 1024938948, 1024999149, 1025016702, 1025019958,
      1025217969, 1025624979, 1025998044, 1026675837>>

egg_density_dark ==
    <<1024965885, 1025167579, 1025282136, 1025361300, 1025440456, 1025406614,
      1025334380, 1025357889, 1025349958, 1025311835, 1025300872, 1025253598,
      1025457323, 1025680634, 1026287275, 1026824609>>

egg_density_light ==
    <<1024966891, 1025198241, 1025357486, 1025462898, 1025572679, 1025602902,
      1025576521, 1025518015, 1025496942, 1025441822, 1025372264, 1025258090,
      1025420820, 1025739589, 1026090628, 1026637115>>

\* The selection with the dark and the light branch exchanged.
egg_density_swapped(pt, dl) ==
    IF pt THEN (IF dl = "dark" THEN egg_density_pt_light ELSE egg_density_pt_dark)
    ELSE (IF dl = "dark" THEN egg_density_light ELSE egg_density_dark)

\* The if / elif chain of lines 223-247, for a selector it binds a table for.
egg_density(pt, dl) ==
    IF pt THEN (IF dl = "dark" THEN egg_density_pt_dark ELSE egg_density_pt_light)
    ELSE (IF dl = "dark" THEN egg_density_dark ELSE egg_density_light)

\* Neither branch of the chain binds egg_density for any other selector:
\* line 260 then raises UnboundLocalError.
egg_density_bound(dl) == dl \in {"dark", "light"}

\* egg_stage, lines 249-251: the literal in units of 1e-9 (n) and what the
\* conversion of the literal to binary64 adds to it, in units of 1e-20,
\* rounded (r): 0.466666667 is stored as 0.466666667 - 2053e-20.
egg_stage ==
    <<[n |-> 0,         r |-> 0],     [n |-> 66666667,  r |-> -110],
      [n |-> 133333333, r |-> -167],  [n |-> 200000000, r |-> 1110],
      [n |-> 266666667, r |-> 2388],  [n |-> 333333333, r |-> 943],
      [n |-> 400000000, r |-> 2220],  [n |-> 466666667, r |-> -2053],
      [n |-> 533333333, r |-> -3498], [n |-> 600000000, r |-> -2220],
      [n |-> 666666667, r |-> -943],  [n |-> 733333333, r |-> 3163],
      [n |-> 800000000, r |-> 4441],  [n |-> 866666667, r |-> -5384],
      [n |-> 933333333, r |-> -1278], [n |-> 1000000000, r |-> 0]>>

\* A difference n * 1e-9 + r * 1e-20 with |r| < 1e11, as the pair <<n, r>>:
\* the order of such numbers is the lexicographic order of the pairs.
Less(x, y) == x.n < y.n \/ (x.n = y.n /\ x.r < y.r)

\* np.abs(array - value)[i] for a value on the 1e-9 grid.
abs_difference(array, value, i) ==
    LET n == array[i].n - value
        r == array[i].r
    IN  IF n < 0 \/ (n = 0 /\ r < 0) THEN [n |-> -n, r |-> -r]
        ELSE [n |-> n, r |-> r]

\* ndarray.argmin(): the first index of the least element.
RECURSIVE argmin_from(_, _, _)
argmin_from(d, i, best) ==
    IF i > Len(d) THEN best
    ELSE IF Less(d[i], d[best]) THEN argmin_from(d, i + 1, i)
         ELSE argmin_from(d, i + 1, best)

\* The least signed difference instead of the least absolute one.
find_nearest_signed(array, value) ==
    argmin_from([i \in 1..Len(array) |->
                   [n |-> array[i].n - value, r |-> array[i].r]], 2, 1)

\* find_nearest, lines 254-256 (indices from 1).
find_nearest(array, value) ==
    argmin_from([i \in 1..Len(array) |-> abs_difference(array, value, i)], 2, 1)

\* n / d rounded to the nearest integer, ties to even (n >= 0, d > 0).
RoundHalfEven(n, d) ==
    LET q == n \div d
        r == n % d
    IN  IF 2 * r > d \/ (2 * r = d /\ q % 2 = 1) THEN q + 1 ELSE q

\* The assignment of a float64 table value v (units of 1e-6, in [1024, 1040))
\* into the float32 array elements.density (dtype of line 71): the nearest
\* multiple of 2^-13, ties to even, in units of 2^-13.
\*   (v - 1024e6) * 1e-6 * 8192 = (v - 1024e6) * 128 / 15625
float32(v) == 1024 * 8192 + RoundHalfEven((v - 1024000000) * 128, 15625)

\* update_egg_density, lines 216-261, for a selector that binds a table.
update_egg_density(E, pt, dl) ==
    LET eggs == np_where([p \in Particles |-> E.hatched[p] = 0], NumParticles)
    IN  IF Len(eggs) = 0 THEN E
        ELSE [E EXCEPT !.density =
                [p \in Particles |->
                   IF p \in Range(eggs)
                   THEN float32(egg_density(pt, dl)[
                            find_nearest(egg_stage, E.stage_fraction[p])])
                   ELSE E.density[p]]]

\* Whether update_egg_density raises: some particle is unhatched and the
\* selector bound no table.
update_egg_density_raises(E, dl) ==
    /\ \E p \in Particles : E.hatched[p] = 0
    /\ ~egg_density_bound(dl)

\* ------------------------------------------------ 4.3 terminal velocity
\* <<q, r>> with a * b = q * c + r and 0 <= r < c, for 0 <= a < 2^23,
\* b >= 0 and 0 < c < 2^23, by the digits of b to the base 256: no
\* intermediate exceeds 2^31.
RECURSIVE MulDivMod(_, _, _)
MulDivMod(a, b, c) ==
    IF b = 0 THEN <<0, 0>>
    ELSE LET h  == MulDivMod(a, b \div 256, c)
             hi == h[2] * 256
             lo == a * (b % 256)
             r  == (hi % c) + (lo % c)
         IN  <<h[1] * 256 + (hi \div c) + (lo \div c) + (r \div c), r % c>>

\* floor(a * b / c).
MulDiv(a, b, c) == MulDivMod(a, b, c)[1]

\* a * b > c * d for factors >= 0 (a, c < 2^23): the products are compared
\* as two-digit numbers to the base 2^20.
ProductGT(a, b, c, d) ==
    LET x == MulDivMod(a, b, 1048576)
        y == MulDivMod(c, d, 1048576)
    IN  x[1] > y[1] \/ (x[1] = y[1] /\ x[2] > y[2])

\* The largest r in lo..hi with r^3 <= n (lo^3 <= n, hi <= 1290).
RECURSIVE CbrtBetween(_, _, _)
CbrtBetween(n, lo, hi) ==
    IF lo = hi THEN lo
    ELSE LET mid == (lo + hi + 1) \div 2
         IN  IF mid * mid * mid <= n THEN CbrtBetween(n, mid, hi)
             ELSE CbrtBetween(n, lo, mid - 1)

\* floor(n ^ (1/3)) for 0 <= n < 2^31.
ICbrt(n) == CbrtBetween(n, 0, 1290)

NaN == [n |-> 0, d |-> 0]

IsNaN(w) == w.d = 0

\* The sign of a velocity that is a number.
Sign(w) == Sgn(w.n) * Sgn(w.d)

\* self.sea_water_density(T, S) of OpenDrift (the UNESCO equation of state),
\* line 175, at the samples of the model, rounded to 2^-13:
\*   (10, 20) 1015.2693   (10, 34) 1026.1715   (-4, 34) 1027.3883
sea_water_density(T, S) ==
    CASE T = 10 /\ S = 20 -> 8317086
      [] T = 10 /\ S = 34 -> 8406397
      [] T = -4 /\ S = 34 -> 8416365

\* my_w of line 179 in units of 1e-7 kg/(m s):
\*   0.001 * (1.7915 - 0.0538 T + 0.007 T^2 - 0.0023 S)
my_w(T, S) == 17915 - 538 * T + 70 * T * T - 23 * S

\* my_w of line 191, 0.01854 * exp(-0.02783 * T), in units of 1e-6 cm2/s,
\* at the temperatures of the model.
my_w_cgs(T) ==
    CASE T = 10 -> 14036
      [] T = -4 -> 20723

\* The differential taken the other way round.
dr_of_reversed(density, T, S) == density - sea_water_density(T, S)

\* dr of line 176, in units of 2^-13: the buoyancy differential.
dr_of(density, T, S) == sea_water_density(T, S) - density

\* W of line 183, exactly:
\*   (1 / my_w) * (1 / 18) * g * eggsize^2 * dr
\*     = (1e7 / M) * (9.81 / 18) * (D^2 * 1e-8) * (j / 8192)      [m/s]
\*     = (109 * D^2 * j / M) / 16384000                           [m/s]
W_stokes(D, density, T, S) ==
    [n |-> 109 * D * D * dr_of(density, T, S), d |-> my_w(T, S)]

\* highRe of line 186 on the magnitude of the Reynolds number.
highRe_magnitude(D, density, T, S) ==
    LET W == W_stokes(D, density, T, S)
    IN  W.n # 0 /\ ProductGT(125 * D, Abs(W.n), W.d, 1024 * my_w(T, S))

\* highRe of line 186 with >= in place of >.
highRe_inclusive(D, density, T, S) ==
    LET W == W_stokes(D, density, T, S)
    IN  W.n > 0 /\ ~ProductGT(W.d, 1024 * my_w(T, S), 125 * D, W.n)

\* highRe of line 186: W * 1000 * eggsize / my_w > 0.5. With W = (n / d) /
\* 16384000 m/s, eggsize = D * 1e-4 and my_w = M * 1e-7 the Reynolds number
\* is (n / d) * 125 * D / (2048 * M); with d and M positive it exceeds 1/2
\* exactly when n > 0 and 125 * D * n > d * 1024 * M.
highRe(D, density, T, S) ==
    LET W == W_stokes(D, density, T, S)
    IN  W.n > 0 /\ ProductGT(125 * D, W.n, W.d, 1024 * my_w(T, S))

\* d0 of lines 192-193 in units of 1e-4 cm, for dr > 0:
\*   eggsize * 100 - 0.4 * (9 my^2 / (100 g) * DENSw / dr) ^ (1/3)
\* with 9 / (100 g) = 1 / 109; the cube root is taken of the argument
\* scaled by 1e9 and so has three decimals.
d0_of(D, density, T, S) ==
    LET j == dr_of(density, T, S)
        my == my_w_cgs(T)
        X9 == MulDiv((my * my) \div j, sea_water_density(T, S), 109000)
    IN  100 * D - 4 * ICbrt(X9)

\* W2 of lines 194-196 in units of 1/16384000 m/s:
\*   19 * d0 * (0.001 dr)^(2/3) * (my * 0.001 * DENSw)^(-1/3) / 100
\* NaN when dr <= 0: numpy's fractional power of a negative number is NaN,
\* and for dr = 0 the division gives inf, d0 = -inf and -inf * 0 = NaN.
\* For dr > 0 the value is computed in fixed point, good to about 1 %.
W_high(D, density, T, S) ==
    LET j == dr_of(density, T, S)
    IN  IF j <= 0 THEN NaN
        ELSE
          LET d0 == d0_of(D, density, T, S)
              e3 == ICbrt(MulDiv(j, 15625, 128))
              b3 == ICbrt(MulDiv(my_w_cgs(T), sea_water_density(T, S), 8192))
              m  == MulDiv(19 * 256 * Abs(d0), e3 * e3, 15625 * b3)
          IN  [n |-> Sgn(d0) * m, d |-> 1]

\* The velocity update_terminal_velocity gives one particle (line 198:
\* W[highRe] = W2[highRe]).
terminal_velocity_of(D, density, T, S) ==
    IF highRe(D, density, T, S) THEN W_high(D, density, T, S)
    ELSE W_stokes(D, density, T, S)

\* update_terminal_velocity, lines 124-199, without profiles (the call of
\* update() passes none): T0 and S0 are the point samples of the environment.
update_terminal_velocity(E, T0, S0) ==
    [E EXCEPT !.terminal_velocity =
        [p \in Particles |->
            terminal_velocity_of(E.diameter[p], E.density[p], T0[p], S0[p])]]

\* ----------------------------------------------------------- 4.4 update
\* update(), lines 303-316, up to the point where update_egg_density
\* raises: stokes_drift, advect_ocean_current and vertical_mixing move the
\* particles and leave the properties of this model alone.
update_until_raise(E, env, dt) == update_fish_eggs(E, env.sea_water_temperature, dt)

update_raises(E, env, dt, constant, dl) ==
    /\ ~constant
    /\ update_egg_density_raises(update_until_raise(E, env, dt), dl)

\* update() without the test of line 311.
update_density_always(E, env, dt, constant, pt, dl) ==
    update_terminal_velocity(
        update_egg_density(update_fish_eggs(E, env.sea_water_temperature, dt), pt, dl),
        env.sea_water_temperature, env.sea_water_salinity)

\* update() with the density lookup ahead of the stage progression.
update_density_first(E, env, dt, constant, pt, dl) ==
    LET E1 == IF ~constant THEN update_egg_density(E, pt, dl) ELSE E
        E2 == update_fish_eggs(E1, env.sea_water_temperature, dt)
    IN  update_terminal_velocity(E2, env.sea_water_temperature,
                                 env.sea_water_salinity)

\* update() when nothing raises.
update(E, env, dt, constant, pt, dl) ==
    LET E1 == update_fish_eggs(E, env.sea_water_temperature, dt)
        E2 == IF ~constant THEN update_egg_density(E1, pt, dl) ELSE E1
    IN  update_terminal_velocity(E2, env.sea_water_temperature,
                                 env.sea_water_salinity)

\* ------------------------------------------------------------ the inputs
\* Selectors a host can assign to dark_or_light_egg_density: the two the
\* lookup knows and "constant", which create_and_run_simulation assigns for
\* its constant-density runs (line 142).
Selectors == {"dark", "light", "constant"}

\* The assignments of lines 138-145 the driver makes: the Port Townsend
\* tables, the lookup on or off, the selector "light" or "constant".
Configurations ==
    [port_townsend_eggs : {TRUE}, constant_egg_density : BOOLEAN,
     dark_or_light_egg_density : Selectors \ {"dark"}]

\* The four variants of the lookup, with the lookup enabled.
Variants ==
    [port_townsend_eggs : BOOLEAN, constant_egg_density : {FALSE},
     dark_or_light_egg_density : {"dark", "light"}]

\* time_step of o.run(), seconds: an hour backwards, and four days.
TimeSteps == {-3600, 345600}

\* The driver's time step (line 110): one hour.
DriverTimeStep == 3600

\* What seed_elements gives a particle: the defaults of LarvalFishElement
\* with the site's density (line 92) ...
DefaultProfile ==
    [diameter |-> DefaultDiameter, density |-> DefaultDensity, stage_fraction |-> 0]

\* ... or a stage_fraction passed to seed_elements: half-way (0.5, which
\* float32 holds exactly), past the end (1.25) or the scenario's 0.9 ...
HalfProfile == [DefaultProfile EXCEPT !.stage_fraction = 500000000]

LateProfile == [DefaultProfile EXCEPT !.stage_fraction = 1250000000]

ScenarioProfile == [DefaultProfile EXCEPT !.stage_fraction = 900000000]

\* ... or a small light egg: 0.8 mm, 1008.7495 g/kg.
SmallProfile == [diameter |-> 8, density |-> 8263676, stage_fraction |-> 0]

\* ... or an egg as dense as water of 10 degrees and 34 PSU, 1026.1715 g/kg.
NeutralProfile == [DefaultProfile EXCEPT !.density = 8406397]

\* Ambient samples <<temperature, salinity>> of one particle.
EnvSamples == {<<10, 34>>, <<-4, 34>>}

ColdSample == <<-4, 34>>

VelocitySamples == {<<10, 34>>, <<10, 20>>}

Zero == [n |-> 0, d |-> 1]

seeded(profile) ==
    [diameter |-> [p \in Particles |-> profile[p].diameter],
     density |-> [p \in Particles |-> profile[p].density],
     stage_fraction |-> [p \in Particles |-> profile[p].stage_fraction],
     age |-> [p \in Particles |-> 0],
     hatched |-> [p \in Particles |-> 0],
     terminal_velocity |-> [p \in Particles |-> Zero]]

sampled(sample) ==
    [sea_water_temperature |-> [p \in Particles |-> sample[p][1]],
     sea_water_salinity |-> [p \in Particles |-> sample[p][2]]]

\* ---------------------------------------------------------- the machine
\* After LarvalFish.__init__ (lines 100-122): the three options at their
\* defaults, the elements at the defaults of LarvalFishElement, the
\* environment at the fallback values of required_variables (lines 96-97).
Init ==
    /\ phase = "setup"
    /\ constant_egg_density = FALSE
    /\ dark_or_light_egg_density = "light"
    /\ port_townsend_eggs = TRUE
    /\ time_step = 0
    /\ expected_steps = 0
    /\ steps_calculation = 0
    /\ elements = seeded([p \in Particles |-> DefaultProfile])
    /\ environment = sampled([p \in Particles |-> <<10, 34>>])

\* The body of create_and_run_simulation's loops (lines 134-165): the
\* options are assigned with no check of the selector, the elements are
\* seeded and the run starts.
SetupFrom(configs, timesteps, profiles, steps) ==
    /\ phase = "setup"
    /\ \E c \in configs :
         /\ port_townsend_eggs' = c.port_townsend_eggs
         /\ constant_egg_density' = c.constant_egg_density
         /\ dark_or_light_egg_density' = c.dark_or_light_egg_density
    /\ \E dt \in timesteps : time_step' = dt
    /\ \E profile \in [Particles -> profiles] : elements' = seeded(profile)
    /\ expected_steps' = steps
    /\ phase' = "running"
    /\ UNCHANGED <<steps_calculation, environment>>

Running == phase = "running" /\ steps_calculation < expected_steps

\* The run loop's sampling of the environment at the particles' positions,
\* before update().
GetEnvironmentFrom(samples) ==
    /\ Running
    /\ \E sample \in [Particles -> samples] : environment' = sampled(sample)
    /\ UNCHANGED <<phase, constant_egg_density, dark_or_light_egg_density,
                   port_townsend_eggs, time_step, expected_steps,
                   steps_calculation, elements>>

UpdateFishEggs ==
    /\ Running
    /\ elements' = update_fish_eggs(elements, environment.sea_water_temperature,
                                    time_step)
    /\ steps_calculation' = steps_calculation + 1
    /\ UNCHANGED <<phase, constant_egg_density, dark_or_light_egg_density,
                   port_townsend_eggs, time_step, expected_steps, environment>>

UpdateEggDensity ==
    /\ Running
    /\ IF update_egg_density_raises(elements, dark_or_light_egg_density)
       THEN phase' = "failed" /\ UNCHANGED elements
       ELSE /\ elements' = update_egg_density(elements, port_townsend_eggs,
                                              dark_or_light_egg_density)
            /\ UNCHANGED phase
    /\ steps_calculation' = steps_calculation + 1
    /\ UNCHANGED <<constant_egg_density, dark_or_light_egg_density,
                   port_townsend_eggs, time_step, expected_steps, environment>>

UpdateTerminalVelocity ==
    /\ Running
    /\ elements' = update_terminal_velocity(elements,
                       environment.sea_water_temperature,
                       environment.sea_water_salinity)
    /\ steps_calculation' = steps_calculation + 1
    /\ UNCHANGED <<phase, constant_egg_density, dark_or_light_egg_density,
                   port_townsend_eggs, time_step, expected_steps, environment>>

Update ==
    /\ Running
    /\ IF update_raises(elements, environment, time_step, constant_egg_density,
                        dark_or_light_egg_density)
       THEN /\ phase' = "failed"
            /\ elements' = update_until_raise(elements, environment, time_step)
       ELSE /\ elements' = update(elements, environment, time_step,
                                  constant_egg_density, port_townsend_eggs,
                                  dark_or_light_egg_density)
            /\ UNCHANGED phase
    /\ steps_calculation' = steps_calculation + 1
    /\ UNCHANGED <<constant_egg_density, dark_or_light_egg_density,
                   port_townsend_eggs, time_step, expected_steps, environment>>

\* The program: any configuration, any time step, particles at the seeding
\* defaults, the operations in any order.
Setup == SetupFrom(Configurations, TimeSteps, {DefaultProfile}, MaxSteps)

GetEnvironment == GetEnvironmentFrom(EnvSamples)

Next ==
    \/ Setup
    \/ GetEnvironment
    \/ UpdateFishEggs
    \/ UpdateEggDensity
    \/ UpdateTerminalVelocity
    \/ Update

Spec == Init /\ [][Next]_vars

\* The density lookup: the four variants, particles seeded at several
\* stages of development.
SetupLookup ==
    SetupFrom(Variants, {DriverTimeStep},
              {DefaultProfile, HalfProfile, LateProfile}, MaxSteps)

GetEnvironmentLookup == GetEnvironmentFrom({ColdSample})

NextLookup ==
    \/ SetupLookup
    \/ GetEnvironmentLookup
    \/ UpdateFishEggs
    \/ UpdateEggDensity
    \/ UpdateTerminalVelocity
    \/ Update

SpecLookup == Init /\ [][NextLookup]_vars

\* The terminal velocity: the light variant with the lookup on or off,
\* seeded densities and diameters on both sides of the regime boundary.
SetupVelocity ==
    SetupFrom([port_townsend_eggs : {TRUE}, constant_egg_density : BOOLEAN,
               dark_or_light_egg_density : {"light"}],
              {DriverTimeStep}, {DefaultProfile, SmallProfile}, MaxSteps)

GetEnvironmentVelocity == GetEnvironmentFrom(VelocitySamples)

NextVelocity ==
    \/ SetupVelocity
    \/ GetEnvironmentVelocity
    \/ UpdateFishEggs
    \/ UpdateEggDensity
    \/ UpdateTerminalVelocity
    \/ Update

SpecVelocity == Init /\ [][NextVelocity]_vars

\* The terminal velocity without buoyancy: eggs seeded at the density of the
\* water, or denser than it.
SetupBuoyancy ==
    SetupFrom([port_townsend_eggs : {TRUE}, constant_egg_density : BOOLEAN,
               dark_or_light_egg_density : {"light"}],
              {DriverTimeStep}, {DefaultProfile, NeutralProfile}, MaxSteps)

NextBuoyancy ==
    \/ SetupBuoyancy
    \/ GetEnvironmentVelocity
    \/ UpdateFishEggs
    \/ UpdateEggDensity
    \/ UpdateTerminalVelocity
    \/ Update

SpecBuoyancy == Init /\ [][NextBuoyancy]_vars

\* Whole runs with the lookup on: nothing but update() timesteps of four
\* days, eggs seeded fresh or close to hatching.
SetupTimesteps ==
    SetupFrom([port_townsend_eggs : {TRUE}, constant_egg_density : {FALSE},
               dark_or_light_egg_density : {"dark", "light"}],
              {345600}, {DefaultProfile, ScenarioProfile}, MaxSteps)

NextTimesteps ==
    \/ SetupTimesteps
    \/ GetEnvironment
    \/ Update

SpecTimesteps == Init /\ [][NextTimesteps]_vars

\* The timestep scenario of the specification: particle 1 starts at
\* stage_fraction 0.9, the temperature stays at 10 degrees, the time step is
\* one hour, and the stage progression is called again and again (alone or
\* within update()).
InitScenario ==
    /\ phase = "running"
    /\ constant_egg_density \in BOOLEAN
    /\ dark_or_light_egg_density = "light"
    /\ port_townsend_eggs = TRUE
    /\ time_step = DriverTimeStep
    /\ expected_steps = ScenarioSteps
    /\ steps_calculation = 0
    /\ \E profile \in [Particles -> {ScenarioProfile, HalfProfile, DefaultProfile}] :
         /\ profile[1] = ScenarioProfile
         /\ elements = seeded(profile)
    /\ environment = sampled([p \in Particles |-> <<10, 34>>])

NextScenario ==
    \/ UpdateFishEggs
    \/ Update

SpecScenario == InitScenario /\ [][NextScenario]_vars /\ WF_vars(NextScenario)

\* ------------------------------------------------------------ properties
\* C1. Hatch irreversibility: whatever operation is called, with whatever
\* temperatures and time step, a particle whose hatched flag is 1 before the
\* call has it 1 after the call.
HatchedNeverReset ==
    [][\A p \in Particles :
          elements.hatched[p] = 1 => elements'.hatched[p] = 1]_vars

\* A later update_fish_eggs call has acted on a hatched particle: p hatched
\* in the second call (its age stopped there), q went through three calls.
HatchedNeverResetWitness ==
    /\ time_step > 0
    /\ \E p, q \in Particles :
         /\ elements.hatched[p] = 1
         /\ elements.age[p] = 2 * time_step
         /\ elements.age[q] = 3 * time_step

\* C2 as stated. Monotone stage: with a non-negative time step and any
\* sampled temperature, no call decreases the stage_fraction or the age of a
\* particle whose hatched flag is 0.
StageMonotoneAtAnyTemperature ==
    [][\A p \in Particles :
          (elements.hatched[p] = 0 /\ time_step >= 0)
          => /\ elements'.stage_fraction[p] >= elements.stage_fraction[p]
             /\ elements'.age[p] >= elements.age[p]]_vars

\* C2 as the code has it. With a non-negative time step, no call decreases
\* the age of an unhatched particle, and none decreases its stage_fraction
\* when the sampled temperature T makes the development rate non-negative:
\* 0.0506982 + 0.0149187 * T >= 0, T >= -3.398 degrees.
StageMonotoneAtNonNegativeRate ==
    [][\A p \in Particles :
          (elements.hatched[p] = 0 /\ time_step >= 0)
          => /\ elements'.age[p] >= elements.age[p]
             /\ 506982 + 149187 * environment.sea_water_temperature[p] >= 0
                => elements'.stage_fraction[p] >= elements.stage_fraction[p]]_vars

\* An unhatched particle that a call at 10 degrees has advanced.
StageMonotoneWitness ==
    /\ time_step > 0
    /\ \E p \in Particles :
         /\ elements.hatched[p] = 0
         /\ environment.sea_water_temperature[p] = 10
         /\ elements.age[p] = time_step
         /\ elements.stage_fraction[p] > 0

\* C3. Hatch condition: from the seeding defaults, in every state a particle
\* has hatched = 1 if and only if its stage_fraction is >= 1, so the flag is
\* on exactly the particles whose stage_fraction crossed 1.
HatchedIffStageComplete ==
    \A p \in Particles :
        elements.hatched[p] = 1 <=> elements.stage_fraction[p] >= One

\* The index mapping matters: particle 2 hatched in a call in which it was
\* the only egg left (position 1 of eggs), particle 1 having hatched before.
HatchedIffStageCompleteWitness ==
    /\ NumParticles >= 2
    /\ elements.hatched[1] = 1
    /\ elements.hatched[2] = 1
    /\ time_step > 0
    /\ elements.age[1] < elements.age[2]

\* C4. Timestep scenario: particle 1 starts at stage_fraction 0.9 with
\* hatched 0, the temperature is 10 degrees and the time step 3600 s. After
\* k calls of the stage progression (k is the particle's age in hours) the
\* stage_fraction is 0.9 + k * 0.00832855, so 0.90832855 with hatched still 0
\* after the first call; hatched is 1 exactly from the 13th call on, the
\* first at which the sum is >= 1; the flag changes only from 0 to 1, only
\* in that call, and the repeated call eventually sets it.
ScenarioHatchesOnce ==
    /\ [](LET k == elements.age[1] \div 3600
          IN  /\ elements.stage_fraction[1] = 900000000 + 8328550 * k
              /\ elements.hatched[1] = 0 => k < 13
              /\ elements.hatched[1] = 1 => k = 13)
    /\ [][elements'.hatched[1] # elements.hatched[1]
          => /\ elements.hatched[1] = 0
             /\ elements'.hatched[1] = 1
             /\ elements.stage_fraction[1] < One
             /\ elements'.stage_fraction[1] >= One]_vars
    /\ <>(elements.hatched[1] = 1)

\* Particle 1 has hatched, in the 13th call, and calls went on after that.
ScenarioHatchesOnceWitness ==
    /\ elements.hatched[1] = 1
    /\ elements.age[1] = 13 * 3600
    /\ elements.stage_fraction[1] = 1008271150
    /\ steps_calculation = 15

\* C5 as stated. Density table membership: after any update_egg_density
\* call (alone or within update()), for each of the four variants, the
\* density of every particle with hatched = 0 is exactly one of the 16
\* values of the active variant's table: density * 2^-13 = value * 1e-6.
DensityExactlyInTable ==
    [][((UpdateEggDensity \/ (Update /\ ~constant_egg_density))
        /\ phase' = "running")
       => LET active == IF port_townsend_eggs
                        THEN (IF dark_or_light_egg_density = "dark"
                              THEN egg_density_pt_dark ELSE egg_density_pt_light)
                        ELSE (IF dark_or_light_egg_density = "dark"
                              THEN egg_density_dark ELSE egg_density_light)
          IN  \A p \in Particles :
                elements'.hatched[p] = 0
                => \E i \in 1..16 :
                     (elements'.density[p] - 1024 * 8192) * 15625
                       = (active[i] - 1024000000) * 128]_vars

\* C5 as the code has it. After any update_egg_density call, for each of the
\* four variants and any stage_fraction, the density of every particle with
\* hatched = 0 is the float32 nearest to one of the 16 values of the active
\* variant's table: it differs from the value by at most half the float32
\* spacing 2^-13 g/kg, not by nothing.
DensityNearestFloat32OfTable ==
    [][((UpdateEggDensity \/ (Update /\ ~constant_egg_density))
        /\ phase' = "running")
       => LET active == IF port_townsend_eggs
                        THEN (IF dark_or_light_egg_density = "dark"
                              THEN egg_density_pt_dark ELSE egg_density_pt_light)
                        ELSE (IF dark_or_light_egg_density = "dark"
                              THEN egg_density_dark ELSE egg_density_light)
          IN  \A p \in Particles :
                elements'.hatched[p] = 0
                => \E i \in 1..16 :
                     2 * Abs((elements'.density[p] - 1024 * 8192) * 15625
                             - (active[i] - 1024000000) * 128) <= 15625]_vars

\* The lookup has acted below 0 and above 1: an unhatched particle with a
\* negative stage_fraction holds the first entry of the dark table (1024.965885
\* is stored as 1024.9659423828125) and a particle seeded past 1 the last
\* (1026.824609 as 1026.8245849609375).
DensityTableWitness ==
    /\ ~port_townsend_eggs
    /\ dark_or_light_egg_density = "dark"
    /\ \E p, q \in Particles :
         /\ elements.hatched[p] = 0
         /\ elements.stage_fraction[p] < 0
         /\ elements.density[p] = 8396521
         /\ elements.stage_fraction[q] > One
         /\ elements.density[q] = 8411747

\* C6 as stated, for its worked case: in the light variant without the Port
\* Townsend tables, update_egg_density gives an unhatched particle of
\* stage_fraction 0.5 the table entry at breakpoint 7/15 (the eighth,
\* 1025.518015, stored as 8401044 * 2^-13), the tie going to the lower index.
NearestAtHalfIsLowerBreakpoint ==
    [][(UpdateEggDensity /\ phase' = "running" /\ ~port_townsend_eggs
        /\ dark_or_light_egg_density = "light")
       => \A p \in Particles :
            (elements.hatched[p] = 0 /\ elements.stage_fraction[p] = 500000000)
            => elements'.density[p] = 8401044]_vars

\* C6 as the code has it. update_egg_density sets an unhatched particle's
\* density to the (float32 of the) table entry at the first index i whose
\* breakpoint, as the binary64 number the literal of egg_stage becomes,
\* minimises the absolute distance to the stage_fraction: no breakpoint is
\* closer, and every earlier one is farther. For stage_fraction 0.5 in the
\* light variant without the Port Townsend tables there is no tie: 0.533333333
\* (stored 3.5e-17 below the literal) is nearer than 0.466666667 (stored
\* 2.1e-17 below), and the result is the entry at 8/15 (the ninth,
\* 1025.496942, stored as 8400871 * 2^-13).
NearestBreakpointByStoredDistance ==
    [][((UpdateEggDensity \/ (Update /\ ~constant_egg_density))
        /\ phase' = "running")
       => LET active == IF port_townsend_eggs
                        THEN (IF dark_or_light_egg_density = "dark"
                              THEN egg_density_pt_dark ELSE egg_density_pt_light)
                        ELSE (IF dark_or_light_egg_density = "dark"
                              THEN egg_density_dark ELSE egg_density_light)
              dist(i, v) == abs_difference(egg_stage, v, i)
          IN  \A p \in Particles :
                elements'.hatched[p] = 0
                => LET v == elements'.stage_fraction[p]
                   IN  /\ \E i \in 1..16 :
                            /\ \A j \in 1..16 : ~Less(dist(j, v), dist(i, v))
                            /\ \A j \in 1..(i - 1) : Less(dist(i, v), dist(j, v))
                            /\ 2 * Abs((elements'.density[p] - 1024 * 8192) * 15625
                                       - (active[i] - 1024000000) * 128) <= 15625
                       /\ (v = 500000000 /\ ~port_townsend_eggs
                           /\ dark_or_light_egg_density = "light")
                          => elements'.density[p] = 8400871]_vars

\* The lookup has acted on an unhatched particle at stage_fraction 0.5 in the
\* light variant without the Port Townsend tables.
NearestAtHalfWitness ==
    /\ ~port_townsend_eggs
    /\ dark_or_light_egg_density = "light"
    /\ \E p \in Particles :
         /\ elements.hatched[p] = 0
         /\ elements.stage_fraction[p] = 500000000
         /\ elements.density[p] = 8400871

\* C7. Density frame: no operation changes the density of a particle whose
\* hatched flag is 1 (update_egg_density skips it), and with
\* constant_egg_density = TRUE a full update() timestep leaves the density
\* of every particle, hatched or not, unchanged: a step that changes some
\* density then is not an update() timestep.
DensityFrame ==
    [][/\ \A p \in Particles :
            elements.hatched[p] = 1 => elements'.density[p] = elements.density[p]
       /\ (constant_egg_density /\ elements'.density # elements.density)
          => ~Update]_vars

\* With constant_egg_density = TRUE, update() has acted on an unhatched
\* particle (its terminal velocity was computed from the seeded density),
\* and update_egg_density has been called while another was hatched.
DensityFrameWitness ==
    /\ constant_egg_density
    /\ time_step > 0
    /\ \E p, q \in Particles :
         /\ elements.hatched[p] = 0
         /\ elements.age[p] = 2 * time_step
         /\ elements.density[p] # DefaultDensity
         /\ elements.hatched[q] = 1
         /\ elements.density[q] = DefaultDensity
         /\ elements.terminal_velocity[q] # Zero

\* C8 as stated. Sign convention: after update_terminal_velocity (alone or
\* at the end of update()), a particle denser than the ambient water has
\* terminal_velocity > 0 and one lighter than the water has
\* terminal_velocity < 0.
DenserHasPositiveVelocity ==
    [][((UpdateTerminalVelocity \/ Update) /\ phase' = "running")
       => \A p \in Particles :
            LET rho_w == sea_water_density(environment.sea_water_temperature[p],
                                           environment.sea_water_salinity[p])
                w == elements'.terminal_velocity[p]
            IN  /\ elements'.density[p] > rho_w => (~IsNaN(w) /\ Sign(w) > 0)
                /\ elements'.density[p] < rho_w => (~IsNaN(w) /\ Sign(w) < 0)]_vars

\* C8 as the code has it. After update_terminal_velocity, a particle denser
\* than the ambient water has terminal_velocity < 0 (it sinks: the velocity
\* is positive upwards) and one lighter than the water has
\* terminal_velocity > 0 (it rises); the velocity has the sign of
\* rho_w - density.
DenserHasNegativeVelocity ==
    [][((UpdateTerminalVelocity \/ Update) /\ phase' = "running")
       => \A p \in Particles :
            LET rho_w == sea_water_density(environment.sea_water_temperature[p],
                                           environment.sea_water_salinity[p])
                w == elements'.terminal_velocity[p]
            IN  /\ elements'.density[p] > rho_w => (~IsNaN(w) /\ Sign(w) < 0)
                /\ elements'.density[p] < rho_w => (~IsNaN(w) /\ Sign(w) > 0)]_vars

\* Both cases side by side: p is denser than its water and sinks, q is
\* lighter than its water and rises.
SignConventionWitness ==
    \E p, q \in Particles :
        /\ elements.density[p] > sea_water_density(environment.sea_water_temperature[p],
                                                   environment.sea_water_salinity[p])
        /\ Sign(elements.terminal_velocity[p]) < 0
        /\ elements.density[q] < sea_water_density(environment.sea_water_temperature[q],
                                                   environment.sea_water_salinity[q])
        /\ Sign(elements.terminal_velocity[q]) > 0

\* C9. Regime selection: update_terminal_velocity gives each particle, from
\* its own diameter, density and water sample alone, the Stokes value W when
\* its Reynolds number Re = W * 1000 * diameter / mu is <= 0.5, Re exactly
\* 0.5 included, and the high-Reynolds value only when Re > 0.5. With W in
\* terms of D (1e-4 m), j = rho_w - density (2^-13 g/kg) and M = 1e7 mu,
\* Re = 13625 * D^3 * j / (2048 * M^2).
RegimeByReynoldsNumber ==
    [][((UpdateTerminalVelocity \/ Update) /\ phase' = "running")
       => \A p \in Particles :
            LET T == environment.sea_water_temperature[p]
                S == environment.sea_water_salinity[p]
                D == elements'.diameter[p]
                j == sea_water_density(T, S) - elements'.density[p]
                M == 17915 - 538 * T + 70 * T * T - 23 * S
                above == j > 0 /\ ProductGT(j, 13625 * D * D * D, M, 1024 * M)
            IN  elements'.terminal_velocity[p] =
                  IF above THEN W_high(D, elements'.density[p], T, S)
                  ELSE W_stokes(D, elements'.density[p], T, S)]_vars

\* A particle of 0.8 mm and 1008.7495 g/kg in water of 10 degrees and 20 PSU
\* has Re exactly 0.5 and holds its Stokes value, next to a particle that
\* holds a high-Reynolds value.
RegimeBoundaryWitness ==
    \E p, q \in Particles :
        /\ elements.diameter[p] = 8
        /\ elements.density[p] = 8263676
        /\ environment.sea_water_temperature[p] = 10
        /\ environment.sea_water_salinity[p] = 20
        /\ elements.terminal_velocity[p] = [n |-> 372588160, d |-> 19075]
        /\ elements.terminal_velocity[q].d = 1
        /\ elements.terminal_velocity[q].n > 0

\* C10 as stated. Configuration error: a dark_or_light_egg_density other
\* than "dark" or "light" is caught at setup and never surfaces during a
\* timestep: no call of update_egg_density or update() raises.
SelectorErrorNeverInTimestep == phase # "failed"

\* C11. After update_terminal_velocity (alone or at the end of update()),
\* with j = rho_w - density: a particle with j <= 0 holds the Stokes value
\* W = 109 * D^2 * j / M, which is 0 for j = 0; only a particle with j > 0
\* holds anything else; and no particle holds NaN, the value the fractional
\* powers of the high-Reynolds formula give for j <= 0.
HighReynoldsOnlyWhenBuoyant ==
    [][((UpdateTerminalVelocity \/ Update) /\ phase' = "running")
       => \A p \in Particles :
            LET T == environment.sea_water_temperature[p]
                S == environment.sea_water_salinity[p]
                D == elements'.diameter[p]
                j == sea_water_density(T, S) - elements'.density[p]
                M == 17915 - 538 * T + 70 * T * T - 23 * S
                w == elements'.terminal_velocity[p]
                stokes == [n |-> 109 * D * D * j, d |-> M]
            IN  /\ ~IsNaN(w)
                /\ j <= 0 => w = stokes
                /\ j = 0 => (w.n = 0 /\ w.d > 0)
                /\ w # stokes => j > 0]_vars

\* The solver has acted on a particle as dense as its water (10 degrees, 34
\* PSU), which holds 0 / my_w, and on one denser than its water (10 degrees,
\* 20 PSU), which holds a negative Stokes value.
HighReynoldsOnlyWhenBuoyantWitness ==
    \E p, q \in Particles :
        /\ elements.density[p] = 8406397
        /\ environment.sea_water_temperature[p] = 10
        /\ environment.sea_water_salinity[p] = 34
        /\ elements.terminal_velocity[p] = [n |-> 0, d |-> 18753]
        /\ elements.density[q] = 8406397
        /\ environment.sea_water_salinity[q] = 20
        /\ elements.terminal_velocity[q] = [n |-> 109 * 14 * 14 * (8317086 - 8406397),
                                            d |-> 19075]

\* C12. In a run of update() timesteps with the lookup on, a timestep never
\* changes the density of a particle that is hatched at its end, whether it
\* hatched in this timestep or before; the terminal velocity the timestep
\* gives the particle is computed from that unchanged density; and the
\* density a particle has when it hatches is the seeded one if it hatches in
\* its first timestep, otherwise the (float32 of the) table entry nearest the
\* stage_fraction it had at the end of the timestep before.
HatchedDensityFrozen ==
    [][(steps_calculation' = steps_calculation + 1 /\ phase' = "running")
       => LET active == IF dark_or_light_egg_density = "dark"
                        THEN egg_density_pt_dark ELSE egg_density_pt_light
              dist(i, v) == abs_difference(egg_stage, v, i)
          IN  \A p \in Particles :
                elements'.hatched[p] = 1
                => /\ elements'.density[p] = elements.density[p]
                   /\ elements'.terminal_velocity[p] =
                        terminal_velocity_of(elements.diameter[p], elements.density[p],
                                             environment.sea_water_temperature[p],
                                             environment.sea_water_salinity[p])
                   /\ elements.hatched[p] = 0
                      => IF steps_calculation = 0
                         THEN elements.density[p] = DefaultDensity
                         ELSE LET v == elements.stage_fraction[p]
                              IN  \E i \in 1..16 :
                                    /\ \A k \in 1..16 : ~Less(dist(k, v), dist(i, v))
                                    /\ \A k \in 1..(i - 1) : Less(dist(i, v), dist(k, v))
                                    /\ 2 * Abs((elements.density[p] - 1024 * 8192) * 15625
                                               - (active[i] - 1024000000) * 128)
                                         <= 15625]_vars

\* Three timesteps of the light variant: p, seeded at 0.9, hatched in the
\* first and still has the seeded density; q hatched in the second and still
\* has the entry at breakpoint 0.8 (1025.217969, stored as 8398586 * 2^-13),
\* nearest the 0.7995408 it had reached in the first.
HatchedDensityFrozenWitness ==
    /\ dark_or_light_egg_density = "light"
    /\ steps_calculation = 3
    /\ \E p, q \in Particles :
         /\ elements.hatched[p] = 1
         /\ elements.age[p] = time_step
         /\ elements.density[p] = DefaultDensity
         /\ elements.terminal_velocity[p] # Zero
         /\ elements.hatched[q] = 1
         /\ elements.age[q] = 2 * time_step
         /\ elements.density[q] = 8398586

====
